---- MODULE Spec2Model ----
(***************************************************************************)
(* Moving-average crossover backtesting engine of the Trading-System       *)
(* repository: trading/strategy.py (signal generation) and                 *)
(* trading/backtester.py (portfolio simulation, metrics, orchestration).   *)
(*                                                                         *)
(* Closes and capital are integers.  On integer-valued inputs of this size *)
(* every binary64 operation of the code (sum, product, difference, the     *)
(* comparison of two means, int() of a quotient) gives the exact result,   *)
(* so integer and rational arithmetic is what the code computes here.      *)
(* A float that is a ratio (a moving average, a return) is a reduced       *)
(* fraction <<n, d>> with d > 0; NaN is <<0, 0>>.                          *)
(***************************************************************************)
EXTENDS Integers, Sequences, FiniteSets, TLC

\* ---------------------------------------------------------------- bounds
\* longest price series, largest moving-average window
MaxLen == 4
MaxWindow == 3

\* ------------------------------------------------------------ arithmetic
None == "None"

Abs(x) == IF x < 0 THEN -x ELSE x

RECURSIVE GCD(_, _)
GCD(a, b) == IF b = 0 THEN a ELSE GCD(b, a % b)

NaN == <<0, 0>>

\* numpy true division n / d of two numbers held exactly: 0/0 is nan,
\* x/0 is +-inf (<<1, 0>> or <<-1, 0>>).
Rat(n, d) ==
    IF d = 0 THEN (IF n = 0 THEN NaN ELSE IF n > 0 THEN <<1, 0>> ELSE <<-1, 0>>)
    ELSE LET g == GCD(Abs(n), Abs(d))
             s == IF d < 0 THEN -1 ELSE 1
         IN  <<(s * n) \div g, (s * d) \div g>>

IsFinite(x) == x[2] # 0

RatAdd(x, y) == IF IsFinite(x) /\ IsFinite(y)
                THEN LET g == GCD(x[2], y[2])
                     IN  Rat(x[1] * (y[2] \div g) + y[1] * (x[2] \div g),
                             x[2] * (y[2] \div g))
                ELSE IF IsFinite(y) THEN x ELSE IF IsFinite(x) THEN y
                ELSE IF x = y THEN x ELSE NaN

RatMul(x, y) == IF IsFinite(x) /\ IsFinite(y)
                THEN LET g == GCD(Abs(x[1]), y[2])
                         h == GCD(Abs(y[1]), x[2])
                     IN  Rat((x[1] \div g) * (y[1] \div h),
                             (x[2] \div h) * (y[2] \div g))
                ELSE IF x = NaN \/ y = NaN \/ x[1] = 0 \/ y[1] = 0 THEN NaN
                ELSE IF (x[1] > 0) = (y[1] > 0) THEN <<1, 0>> ELSE <<-1, 0>>

\* x > y on floats: False when either side is NaN.
RatGreater(x, y) == /\ x # NaN
                    /\ y # NaN
                    /\ IF IsFinite(x) /\ IsFinite(y)
                       THEN x[1] * y[2] > y[1] * x[2]
                       ELSE IF IsFinite(y) THEN x[1] > 0
                       ELSE IF IsFinite(x) THEN y[1] < 0
                       ELSE x[1] > y[1]

\* x / y on floats
RatDiv(x, y) == IF IsFinite(x) /\ IsFinite(y) THEN Rat(x[1] * y[2], x[2] * y[1])
                ELSE IF x = NaN \/ y = NaN THEN NaN
                ELSE IF IsFinite(x) THEN Rat(0, 1)
                ELSE IF IsFinite(y) THEN (IF (x[1] > 0) = (y[1] >= 0) THEN <<1, 0>> ELSE <<-1, 0>>)
                ELSE NaN

\* Python int(n / d): truncation toward zero.
IntOfQuotient(n, d) ==
    LET q == Abs(n) \div Abs(d)
    IN  IF (n < 0) = (d < 0) THEN q ELSE -q

RECURSIVE SumRange(_, _, _)
SumRange(s, lo, hi) == IF lo > hi THEN 0 ELSE s[hi] + SumRange(s, lo, hi - 1)

\* ------------------------------------------------------------ data frames
\* A DataFrame: index (the dates, here the day numbers), the set of column
\* names, and one row per index entry, a function from column name to value.
Frame(index, columns, rows) == [index |-> index, columns |-> columns, rows |-> rows]

FrameLen(f) == Len(f.index)

\* closes of the price series
Prices == {1, 2, 3}

PriceLists == UNION {[1..n -> Prices] : n \in 0..MaxLen}

\* The caller's price series: closes under 'close', under 'price', or a
\* frame with neither column.
InputColumns == {"close", "price", "volume"}

MakeFrame(col, values) ==
    Frame([k \in 1..Len(values) |-> k], {col},
          [k \in 1..Len(values) |-> [c \in {col} |-> values[k]]])

DataFrames == {MakeFrame(col, v) : col \in InputColumns, v \in PriceLists}

\* row r extended / overwritten with column c = v
SetCol(r, c, v) == [k \in DOMAIN r \cup {c} |-> IF k = c THEN v ELSE r[k]]

Column(f, c) == [k \in 1..FrameLen(f) |-> f.rows[k][c]]

\* ---------------------------------------------------- trading/strategy.py
\* f'MA_{window}': the two averages share one column when the windows are equal.
MAName(w) == "MA_" \o ToString(w)

\* faulty variant: rolling(window=w, min_periods=1), a mean from the first row on
RollingMean_MinPeriods1(close, w) ==
    [k \in 1..Len(close) |->
        IF k < w THEN Rat(SumRange(close, 1, k), k)
        ELSE Rat(SumRange(close, k - w + 1, k), w)]

\* faulty variant: a window shifted one day into the future where that day exists
RollingMean_LookAhead(close, w) ==
    [k \in 1..Len(close) |->
        IF k < w THEN NaN
        ELSE IF k < Len(close) THEN Rat(SumRange(close, k - w + 2, k + 1), w)
        ELSE Rat(SumRange(close, k - w + 1, k), w)]

\* Series.rolling(window=w).mean(): NaN until w observations are available,
\* then the mean of the w most recent closes ending at row k.
RollingMean(close, w) ==
    [k \in 1..Len(close) |->
        IF k < w THEN NaN ELSE Rat(SumRange(close, k - w + 1, k), w)]

\* faulty variant: >= instead of >
CrossSignal_GreaterEqual(ma_short, ma_long) ==
    [k \in 1..Len(ma_short) |->
        IF ma_short[k] # NaN /\ ma_long[k] # NaN
           /\ ~RatGreater(ma_long[k], ma_short[k])
        THEN 1 ELSE 0]

\* np.where(short > long, 1.0, 0.0): a comparison with NaN is False.
CrossSignal(ma_short, ma_long) ==
    [k \in 1..Len(ma_short) |-> IF RatGreater(ma_short[k], ma_long[k]) THEN 1 ELSE 0]

\* faulty variant: the size of the change, without its direction
Diff_Absolute(signal) ==
    [k \in 1..Len(signal) |->
        IF k = 1 THEN NaN ELSE Rat(Abs(signal[k] - signal[k - 1]), 1)]

\* faulty variant: the signal itself, not its change
Diff_Level(signal) ==
    [k \in 1..Len(signal) |-> IF k = 1 THEN NaN ELSE Rat(signal[k], 1)]

\* Series.diff(): NaN on the first row, then signal[k] - signal[k-1].
Diff(signal) ==
    [k \in 1..Len(signal) |-> IF k = 1 THEN NaN ELSE Rat(signal[k] - signal[k - 1], 1)]

\* DataFrame.dropna(): the rows with no NaN in any column, in order.
DropNa(f, nanCols) ==
    LET Keep(k) == \A c \in nanCols : f.rows[k][c] # NaN
        kept == SelectSeq([k \in 1..FrameLen(f) |-> k], Keep)
    IN  Frame([j \in 1..Len(kept) |-> f.index[kept[j]]], f.columns,
              [j \in 1..Len(kept) |-> f.rows[kept[j]]])

\* frame[c] = values
Assign(f, c, values) ==
    Frame(f.index, f.columns \cup {c},
          [k \in 1..FrameLen(f) |-> SetCol(f.rows[k], c, values[k])])

\* After dropna, position holds 1.0, -1.0 or 0.0: kept as the integer.
Finite(f, c) ==
    Assign(f, c, [k \in 1..FrameLen(f) |-> f.rows[k][c][1]])

generate_signals(df, short_window, long_window) ==
    IF "close" \notin df.columns /\ "price" \notin df.columns
    THEN df    \* logger.error(...); return signals
    ELSE LET s0 == IF "close" \in df.columns THEN df
                   ELSE Assign(df, "close", Column(df, "price"))
             close == Column(s0, "close")
             s1 == Assign(s0, MAName(short_window), RollingMean(close, short_window))
             s2 == Assign(s1, MAName(long_window), RollingMean(close, long_window))
             s3 == Assign(s2, "signal",
                          CrossSignal(Column(s2, MAName(short_window)),
                                      Column(s2, MAName(long_window))))
             s4 == Assign(s3, "position", Diff(Column(s3, "signal")))
         IN  Finite(DropNa(s4, {MAName(short_window), MAName(long_window), "position"}),
                    "position")

\* -------------------------------------------------- trading/backtester.py
Constant(f, v) == [k \in 1..FrameLen(f) |-> v]

\* Backtester._initialize_portfolio: a copy of the signals with the four
\* portfolio columns pre-filled on every row.
initialize_portfolio(signals, initial_capital) ==
    LET p1 == Assign(signals, "holdings", Constant(signals, 0))
        p2 == Assign(p1, "cash", Constant(signals, initial_capital))
        p3 == Assign(p2, "total", Constant(signals, initial_capital))
    IN  Assign(p3, "returns", Constant(signals, Rat(0, 1)))

\* portfolio.loc[portfolio.index[i], c] = v
SetCell(f, i, c, v) ==
    Frame(f.index, f.columns, [f.rows EXCEPT ![i] = SetCol(@, c, v)])

\* faulty variant: the quotient rounded up
SharesToBuy_RoundUp(cash, price) == IntOfQuotient(cash + price - 1, price)

\* shares_to_buy = int(cash / price)
SharesToBuy(cash, price) == IntOfQuotient(cash, price)

\* faulty variant: the cash is reset to the initial capital on every row
PrevCash_Initial(portfolio, i, initial_capital) == initial_capital

\* portfolio['cash'].iloc[i-1] if i > 0 else self.initial_capital
\* (rows are numbered from 1 here, so the first row is i = 1)
PrevCash(portfolio, i, initial_capital) ==
    IF i > 1 THEN portfolio.rows[i - 1]["cash"] ELSE initial_capital

\* faulty variant: the change is taken relative to the row's own total
DailyReturn_OverCurrent(total, prev_total) == Rat(total - prev_total, total)

\* daily_return = total[i] / total[i-1] - 1
DailyReturn(total, prev_total) == RatAdd(Rat(total, prev_total), Rat(-1, 1))

\* faulty variant: the cash is left out of the total
RowTotal_HoldingsOnly(row) == row["holdings"]

\* portfolio.loc[i, 'total'] = holdings[i] + cash[i]
RowTotal(row) == row["holdings"] + row["cash"]

\* faulty variant: a sell signal sells as many shares as the cash would buy
NewPosition_SellsLot(signal_position, position, shares_to_buy) ==
    IF signal_position = 1 THEN position + shares_to_buy
    ELSE IF signal_position = -1 THEN position - shares_to_buy
    ELSE position

\* The shares held after a row: a buy adds shares_to_buy, a sell signal
\* while shares are held sells them all, anything else holds.
NewPosition(signal_position, position, shares_to_buy) ==
    IF signal_position = 1 THEN position + shares_to_buy
    ELSE IF signal_position = -1 /\ position > 0 THEN 0
    ELSE position

\* faulty variant: the shares are not valued at the close
Holdings_Unvalued(position, price) == position

\* portfolio.loc[i, 'holdings'] = position * price
Holdings(position, price) == position * price

\* faulty variant: a fee of 1 is charged on every buy
BuyCost_WithFee(shares_to_buy, price) == shares_to_buy * price + 1

\* cost = shares_to_buy * price
BuyCost(shares_to_buy, price) == shares_to_buy * price

\* faulty variant: the proceeds of a single share
SellProceeds_OneShare(position, price) == price

\* proceeds = position * price
SellProceeds(position, price) == position * price

\* One iteration of the loop of Backtester._simulate_trades on row i with
\* `position` shares held: the portfolio and the shares held after it.
TradeRow(portfolio, i, position, initial_capital) ==
    LET row   == portfolio.rows[i]
        price == row["close"]
        prev  == PrevCash(portfolio, i, initial_capital)
        buy   == row["position"] = 1
        sell  == row["position"] = -1 /\ position > 0
        shares_to_buy == SharesToBuy(prev, price)
        cost     == BuyCost(shares_to_buy, price)
        proceeds == SellProceeds(position, price)
        pos1 == NewPosition(row["position"], position, shares_to_buy)
        holdings == IF sell THEN 0 ELSE Holdings(pos1, price)
        cash == IF buy THEN prev - cost
                ELSE IF sell THEN prev + proceeds ELSE prev
        q1 == SetCell(SetCell(portfolio, i, "holdings", holdings), i, "cash", cash)
        q2 == SetCell(q1, i, "total", RowTotal(q1.rows[i]))
        q3 == IF i > 1
              THEN SetCell(q2, i, "returns",
                           DailyReturn(q2.rows[i]["total"], q2.rows[i - 1]["total"]))
              ELSE q2
    IN  [portfolio |-> q3, position |-> pos1]

\* Series.cumprod() (skipna): NaN where the entry is NaN, else the product
\* of the entries up to k that are not NaN.
RECURSIVE CumProdAt(_, _)
CumProdAt(s, k) ==
    IF k = 0 THEN Rat(1, 1)
    ELSE IF s[k] = NaN THEN CumProdAt(s, k - 1)
    ELSE RatMul(CumProdAt(s, k - 1), s[k])

CumProd(s) == [k \in 1..Len(s) |-> IF s[k] = NaN THEN NaN ELSE CumProdAt(s, k)]

\* portfolio['cumulative_returns'] = (1 + portfolio['returns']).cumprod() - 1
CumulativeReturns(portfolio) ==
    LET growth == [k \in 1..FrameLen(portfolio) |->
                      RatAdd(Rat(1, 1), portfolio.rows[k]["returns"])]
        cp == CumProd(growth)
    IN  Assign(portfolio, "cumulative_returns",
               [k \in 1..FrameLen(portfolio) |-> RatAdd(cp[k], Rat(-1, 1))])

\* The loop of _simulate_trades from row i on.
RECURSIVE SimulateFrom(_, _, _, _)
SimulateFrom(portfolio, i, position, initial_capital) ==
    IF i > FrameLen(portfolio) THEN portfolio
    ELSE LET t == TradeRow(portfolio, i, position, initial_capital)
         IN  SimulateFrom(t.portfolio, i + 1, t.position, initial_capital)

\* Backtester._simulate_trades on a frame that has a 'close' column.
simulate_trades(portfolio, initial_capital) ==
    CumulativeReturns(SimulateFrom(portfolio, 1, 0, initial_capital))

\* faulty variant: only the signals that moved shares are counted
CountEq_Executed(f, c, v) ==
    Cardinality({k \in 1..FrameLen(f) :
        /\ f.rows[k][c] = v
        /\ IF v = 1 THEN f.rows[k]["holdings"] > 0
           ELSE k > 1 /\ f.rows[k - 1]["holdings"] > 0})

\* (portfolio[c] == v).sum()
CountEq(f, c, v) == Cardinality({k \in 1..FrameLen(f) : f.rows[k][c] = v})

\* trading days per year, the annualisation factor
TradingDaysPerYear == 252

\* Series.dropna()
DropNaSeries(s) == LET Is(x) == x # NaN IN SelectSeq(s, Is)

RECURSIVE RatSum(_, _)
RatSum(s, k) == IF k = 0 THEN Rat(0, 1) ELSE RatAdd(RatSum(s, k - 1), s[k])

\* Series.std() squared: the sample variance (ddof = 1), NaN with fewer
\* than two observations.
Variance(obs) ==
    LET n == Len(obs)
        mean == RatDiv(RatSum(obs, n), Rat(n, 1))
        dev2 == [k \in 1..n |->
                    LET dv == RatAdd(obs[k], RatMul(Rat(-1, 1), mean))
                    IN  RatMul(dv, dv)]
    IN  IF n < 2 THEN NaN ELSE RatDiv(RatSum(dev2, n), Rat(n - 1, 1))

\* A float >= 0 that is a square root, held exactly by its square (NaN
\* when the square is NaN).
Root(square) == [squared |-> square]

\* volatility = daily_returns.std() * np.sqrt(252)
Volatility(daily_returns) ==
    Root(RatMul(Variance(daily_returns), Rat(TradingDaysPerYear, 1)))

\* annual_return = (1 + total_return) ** (252 / trading_days) - 1, held
\* exactly by the base and the exponent of the power.
AnnualReturn(total_return, trading_days) ==
    [base |-> RatAdd(Rat(1, 1), total_return),
     exponent |-> Rat(TradingDaysPerYear, trading_days)]

\* the int 0 of `else 0`
Zero == [kind |-> "zero"]

\* a float that is a quotient of two of the floats above, held by both
Quotient(num, den) == [kind |-> "quotient", num |-> num, den |-> den]

\* faulty variant: no guard against a zero volatility
SharpeRatio_Unguarded(annual_return, volatility) == Quotient(annual_return, volatility)

\* sharpe_ratio = annual_return / volatility if volatility != 0 else 0
\* (NaN != 0 is True)
SharpeRatio(annual_return, volatility) ==
    IF volatility.squared # Rat(0, 1)
    THEN Quotient(annual_return, volatility)
    ELSE Zero

\* Series.cummax() (skipna): NaN where the entry is NaN, else the largest
\* entry up to k that is not NaN.
RECURSIVE CumMaxAt(_, _)
CumMaxAt(s, k) ==
    IF k = 1 \/ CumMaxAt(s, k - 1) = NaN
    THEN (IF k > 1 /\ s[k] = NaN THEN CumMaxAt(s, k - 1) ELSE s[k])
    ELSE IF s[k] = NaN THEN CumMaxAt(s, k - 1)
    ELSE IF RatGreater(s[k], CumMaxAt(s, k - 1)) THEN s[k] ELSE CumMaxAt(s, k - 1)

CumMax(s) == [k \in 1..Len(s) |-> IF s[k] = NaN THEN NaN ELSE CumMaxAt(s, k)]

\* Series.min() (skipna): the least entry that is not NaN, NaN if none.
SeriesMin(s) ==
    LET vals == {s[k] : k \in {j \in 1..Len(s) : s[j] # NaN}}
    IN  IF vals = {} THEN NaN
        ELSE CHOOSE v \in vals : \A w \in vals : ~RatGreater(v, w)

\* faulty variant: the decline is measured from the start, not from the peak
Drawdowns_FromStart(cum_returns) ==
    [k \in 1..Len(cum_returns) |-> RatAdd(cum_returns[k], Rat(-1, 1))]

\* drawdowns = cum_returns / cum_returns.cummax() - 1
Drawdowns(cum_returns) ==
    LET running_max == CumMax(cum_returns)
    IN  [k \in 1..Len(cum_returns) |->
            RatAdd(RatDiv(cum_returns[k], running_max[k]), Rat(-1, 1))]

\* max_drawdown: the minimum of the drawdowns of cumprod(1 + returns)
MaxDrawdown(returns) ==
    SeriesMin(Drawdowns(CumProd([k \in 1..Len(returns) |->
                                    RatAdd(Rat(1, 1), returns[k])])))

\* Backtester._calculate_metrics on a non-empty portfolio.
calculate_metrics(portfolio, initial_capital) ==
    LET n == FrameLen(portfolio)
        total_return  == portfolio.rows[n]["cumulative_returns"]
        annual_return == AnnualReturn(total_return, n)
        daily_returns == DropNaSeries(Column(portfolio, "returns"))
        volatility    == Volatility(daily_returns)
        buy_signals  == CountEq(portfolio, "position", 1)
        sell_signals == CountEq(portfolio, "position", -1)
    IN  [start_date    |-> portfolio.index[1],
         end_date      |-> portfolio.index[n],
         trading_days  |-> n,
         initial_value |-> initial_capital,
         final_value   |-> portfolio.rows[n]["total"],
         total_return  |-> total_return,
         annual_return |-> annual_return,
         volatility    |-> volatility,
         sharpe_ratio  |-> SharpeRatio(annual_return, volatility),
         max_drawdown  |-> MaxDrawdown(Column(portfolio, "returns")),
         num_trades    |-> buy_signals + sell_signals,
         buy_signals   |-> buy_signals,
         sell_signals  |-> sell_signals]

\* ---- MovingAverageCrossoverStrategy.backtest, the strategy's own simulator

\* One iteration of the loop of backtest on row i with `position` shares
\* held.  The buy and the sell read portfolio['cash'].iloc[i], the cell of
\* the row itself as the column was filled before the loop.
BacktestRow(portfolio, i, position, initial_capital) ==
    LET row   == portfolio.rows[i]
        price == row["close"]
        buy   == row["position"] = 1
        sell  == row["position"] = -1
        shares_to_buy == row["cash"] \div price
        cost  == shares_to_buy * price
        sale_proceeds == position * price
        pos1 == IF buy THEN position + shares_to_buy ELSE IF sell THEN 0 ELSE position
        holdings == IF sell THEN 0 ELSE pos1 * price
        cash == IF buy THEN row["cash"] - cost
                ELSE IF sell THEN row["cash"] + sale_proceeds
                ELSE IF i > 1 THEN portfolio.rows[i - 1]["cash"] ELSE initial_capital
        q1 == SetCell(SetCell(portfolio, i, "holdings", holdings), i, "cash", cash)
        q2 == SetCell(q1, i, "total", q1.rows[i]["holdings"] + q1.rows[i]["cash"])
        q3 == IF i > 1
              THEN SetCell(q2, i, "returns",
                           RatAdd(Rat(q2.rows[i]["total"], q2.rows[i - 1]["total"]),
                                  Rat(-1, 1)))
              ELSE q2
    IN  [portfolio |-> q3, position |-> pos1]

\* The loop of backtest from row i on.
RECURSIVE BacktestFrom(_, _, _, _)
BacktestFrom(portfolio, i, position, initial_capital) ==
    IF i > FrameLen(portfolio) THEN portfolio
    ELSE LET t == BacktestRow(portfolio, i, position, initial_capital)
         IN  BacktestFrom(t.portfolio, i + 1, t.position, initial_capital)

\* MovingAverageCrossoverStrategy.backtest(df, initial_capital) on a frame
\* with closes: the portfolio it returns.
backtest(df, short_window, long_window, initial_capital) ==
    LET sig == generate_signals(df, short_window, long_window)
        pf0 == initialize_portfolio(sig, initial_capital)
    IN  CumulativeReturns(BacktestFrom(pf0, 1, 0, initial_capital))

\* ------------------------------------------------------------ the program
VARIABLES
    data,        \* the caller's price series (a DataFrame)
    args,        \* the caller's short_window, long_window, initial_capital
    strategy,    \* the MovingAverageCrossoverStrategy object, None before __init__
    backtester,  \* the Backtester object (initial_capital, results), None before __init__
    pc,          \* where the caller / Backtester.run stands
    signals,     \* run's local `signals`
    portfolio,   \* run's local `portfolio`
    i,           \* loop index of _simulate_trades (rows numbered from 1)
    position,    \* _simulate_trades' local `position`: number of shares held
    raised,      \* the exception run() ended with, None otherwise
    returned,    \* what the caller got from each finished call of run(), in order
    other,       \* a second Backtester on the same strategy and data, and its run()
    monitor,     \* the PriceMonitor object (realtime/price_monitor.py)
    processor,   \* the DataProcessor object and the rows it committed
    updates      \* the price feed: the updates delivered so far, the last of them
                 \* and the alert it raised

trading == <<data, args, strategy, backtester, pc, signals, portfolio, i, position,
             raised, returned, other>>

realtime == <<monitor, processor, updates>>

vars == <<trading, realtime>>

\* no price feed: the realtime objects do not exist in a backtest
NoRealtime ==
    /\ monitor = [threshold_percent |-> 0, window_seconds |-> 0,
                  price_history |-> <<>>]
    /\ processor = [interval_minutes |-> 0, price_buffer |-> <<>>,
                    last_processed |-> <<>>, committed |-> <<>>]
    /\ updates = [count |-> 0, received |-> <<>>, last |-> <<>>, alert |-> <<>>]

Windows == 1..MaxWindow

\* initial_capital: too little for one share, enough for some with a
\* remainder, and the values <= 0 that __init__ accepts as well
Capitals == {-1, 0, 1, 5}

Configs == [short_window : Windows, long_window : Windows, initial_capital : Capitals]

EmptyFrame == Frame(<<>>, {}, <<>>)

\* The second Backtester and the locals of its run(); pc "none": there is
\* no second backtester.  `overlap` records that it took a step while the
\* first run() was under way.
Other(opc, capital) ==
    [pc |-> opc, initial_capital |-> capital, results |-> <<>>,
     signals |-> EmptyFrame, portfolio |-> EmptyFrame, i |-> 0, position |-> 0,
     raised |-> None, overlap |-> FALSE]

\* what a call of run() gave its caller: the exception, or the results
Outcome(exception, results) == [raised |-> exception, results |-> results]

Init ==
    /\ data \in DataFrames
    /\ args \in Configs
    /\ strategy = None
    /\ backtester = None
    /\ pc = "start"
    /\ signals = None
    /\ portfolio = None
    /\ i = 0
    /\ position = 0
    /\ raised = None
    /\ returned = <<>>
    /\ other = Other("none", 0)
    /\ NoRealtime

\* x = frame.copy(): what is written to x afterwards leaves `frame` as it was.
\* `written` is the copy after the writes.
AfterCopy_Aliased(frame, written) == written

AfterCopy(frame, written) == frame

\* position = 0 at the start of _simulate_trades
InitialPosition_Stale == position

InitialPosition == 0

\* MovingAverageCrossoverStrategy.__init__: stores the two windows.
StrategyInit ==
    /\ UNCHANGED realtime
    /\ pc = "start"
    /\ strategy' = [short_window |-> args.short_window, long_window |-> args.long_window]
    /\ pc' = "strategy"
    /\ UNCHANGED <<data, args, backtester, signals, portfolio, i, position, raised,
                   returned, other>>

\* Backtester.__init__: stores strategy, data, initial_capital; results = None.
BacktesterInit ==
    /\ UNCHANGED realtime
    /\ pc = "strategy"
    /\ backtester' = [initial_capital |-> args.initial_capital, results |-> None]
    /\ pc' = "run"
    /\ UNCHANGED <<data, args, strategy, signals, portfolio, i, position, raised,
                   returned, other>>

\* run: signals = self.strategy.generate_signals(self.data); generate_signals
\* works on df.copy()
GenerateSignals ==
    /\ UNCHANGED realtime
    /\ pc = "run"
    /\ signals' = generate_signals(data, strategy.short_window, strategy.long_window)
    /\ data' = AfterCopy(data, signals')
    /\ pc' = "signals"
    /\ UNCHANGED <<args, strategy, backtester, portfolio, i, position, raised,
                   returned, other>>

\* run: portfolio = self._initialize_portfolio(signals), a signals.copy();
\* _simulate_trades starts with position = 0
InitializePortfolio ==
    /\ UNCHANGED realtime
    /\ pc = "signals"
    /\ portfolio' = initialize_portfolio(signals, backtester.initial_capital)
    /\ signals' = AfterCopy(signals, portfolio')
    /\ position' = InitialPosition
    /\ i' = 1
    /\ pc' = "simulate"
    /\ UNCHANGED <<data, args, strategy, backtester, raised, returned, other>>

\* One iteration of the loop of _simulate_trades; portfolio['close'] raises
\* KeyError when the frame has no such column.
SimulateRow ==
    /\ UNCHANGED realtime
    /\ pc = "simulate"
    /\ i <= FrameLen(portfolio)
    /\ IF "close" \in portfolio.columns
       THEN LET t == TradeRow(portfolio, i, position, backtester.initial_capital)
            IN  /\ portfolio' = t.portfolio
                /\ signals' = AfterCopy(signals, portfolio')
                /\ position' = t.position
                /\ i' = i + 1
                /\ UNCHANGED <<pc, raised, returned>>
       ELSE /\ raised' = "KeyError"
            /\ pc' = "raised"
            /\ returned' = Append(returned, Outcome("KeyError", <<>>))
            /\ UNCHANGED <<portfolio, signals, position, i>>
    /\ UNCHANGED <<data, args, strategy, backtester, other>>

\* End of the loop of _simulate_trades: the cumulative_returns column.
SimulateEnd ==
    /\ UNCHANGED realtime
    /\ pc = "simulate"
    /\ i > FrameLen(portfolio)
    /\ portfolio' = CumulativeReturns(portfolio)
    /\ signals' = AfterCopy(signals, portfolio')
    /\ pc' = "metrics"
    /\ UNCHANGED <<data, args, strategy, backtester, i, position, raised,
                   returned, other>>

\* run: metrics = self._calculate_metrics(portfolio); self.results = {...};
\* return self.results.  portfolio.index[0] raises IndexError on an empty
\* portfolio.
CalculateMetrics ==
    /\ UNCHANGED realtime
    /\ pc = "metrics"
    /\ IF FrameLen(portfolio) = 0
       THEN /\ raised' = "IndexError"
            /\ pc' = "raised"
            /\ returned' = Append(returned, Outcome("IndexError", <<>>))
            /\ UNCHANGED backtester
       ELSE /\ backtester' =
                [backtester EXCEPT !.results =
                    [portfolio |-> portfolio,
                     metrics |-> calculate_metrics(portfolio, backtester.initial_capital)]]
            /\ pc' = "done"
            /\ returned' = Append(returned, Outcome(None, <<backtester'.results>>))
            /\ UNCHANGED raised
    /\ UNCHANGED <<data, args, strategy, signals, portfolio, i, position, other>>

Next ==
    \/ StrategyInit
    \/ BacktesterInit
    \/ GenerateSignals
    \/ InitializePortfolio
    \/ SimulateRow
    \/ SimulateEnd
    \/ CalculateMetrics

Spec == Init /\ [][Next]_vars

\* The caller calls run() once more on the same Backtester: same strategy,
\* same data, same initial_capital.  The finished call's locals are gone and
\* every local of the new call is assigned before it is read.
RunAgain ==
    /\ UNCHANGED realtime
    /\ pc \in {"done", "raised"}
    /\ Len(returned) = 1
    /\ pc' = "run"
    /\ raised' = None
    /\ UNCHANGED <<data, args, strategy, backtester, signals, portfolio, i, position,
                   returned, other>>

InitRerun == Init /\ 0 < args.short_window /\ args.short_window < args.long_window

NextRerun == Next \/ RunAgain

\* run() called twice in a row
SpecRerun == InitRerun /\ [][NextRerun]_vars

\* ---- two Backtesters on the same strategy object and the same series, their
\* ---- run() calls interleaved statement by statement

\* the first run() has been entered and has not returned
Running == pc \in {"signals", "simulate", "metrics"}

\* a step of the second run(): the locals it leaves and where it stands
OtherStep(fields) == [fields EXCEPT !.overlap = other.overlap \/ Running]

OtherGenerateSignals ==
    /\ UNCHANGED realtime
    /\ other.pc = "run"
    /\ LET sig == generate_signals(data, strategy.short_window, strategy.long_window)
       IN  /\ other' = OtherStep([other EXCEPT !.signals = sig, !.pc = "signals"])
           /\ data' = AfterCopy(data, sig)
    /\ UNCHANGED <<args, strategy, backtester, pc, signals, portfolio, i, position,
                   raised, returned>>

OtherInitializePortfolio ==
    /\ UNCHANGED realtime
    /\ other.pc = "signals"
    /\ LET pf == initialize_portfolio(other.signals, other.initial_capital)
       IN  other' = OtherStep([other EXCEPT !.portfolio = pf,
                                            !.signals = AfterCopy(other.signals, pf),
                                            !.position = InitialPosition,
                                            !.i = 1,
                                            !.pc = "simulate"])
    /\ UNCHANGED <<data, args, strategy, backtester, pc, signals, portfolio, i,
                   position, raised, returned>>

OtherSimulateRow ==
    /\ UNCHANGED realtime
    /\ other.pc = "simulate"
    /\ other.i <= FrameLen(other.portfolio)
    /\ IF "close" \in other.portfolio.columns
       THEN LET t == TradeRow(other.portfolio, other.i, other.position,
                              other.initial_capital)
            IN  other' = OtherStep([other EXCEPT
                                       !.portfolio = t.portfolio,
                                       !.signals = AfterCopy(other.signals, t.portfolio),
                                       !.position = t.position,
                                       !.i = other.i + 1])
       ELSE other' = OtherStep([other EXCEPT !.raised = "KeyError", !.pc = "raised"])
    /\ UNCHANGED <<data, args, strategy, backtester, pc, signals, portfolio, i,
                   position, raised, returned>>

OtherSimulateEnd ==
    /\ UNCHANGED realtime
    /\ other.pc = "simulate"
    /\ other.i > FrameLen(other.portfolio)
    /\ LET pf == CumulativeReturns(other.portfolio)
       IN  other' = OtherStep([other EXCEPT !.portfolio = pf,
                                            !.signals = AfterCopy(other.signals, pf),
                                            !.pc = "metrics"])
    /\ UNCHANGED <<data, args, strategy, backtester, pc, signals, portfolio, i,
                   position, raised, returned>>

OtherCalculateMetrics ==
    /\ UNCHANGED realtime
    /\ other.pc = "metrics"
    /\ IF FrameLen(other.portfolio) = 0
       THEN other' = OtherStep([other EXCEPT !.raised = "IndexError", !.pc = "raised"])
       ELSE other' = OtherStep([other EXCEPT
                !.results = <<[portfolio |-> other.portfolio,
                               metrics |-> calculate_metrics(other.portfolio,
                                                             other.initial_capital)]>>,
                !.pc = "done"])
    /\ UNCHANGED <<data, args, strategy, backtester, pc, signals, portfolio, i,
                   position, raised, returned>>

\* the series the two runs share: closes that fall and rise
ConcPrices == {1, 2}

ConcFrames ==
    {MakeFrame(col, v) : col \in InputColumns,
                         v \in UNION {[1..n -> ConcPrices] : n \in 0..MaxLen}}

\* Both objects constructed, neither run() entered yet.  The two runs are
\* interchangeable, so the second is the one whose capital is not the smaller.
InitConc ==
    /\ data \in ConcFrames
    /\ args \in Configs
    /\ 0 < args.short_window /\ args.short_window < args.long_window
    /\ args.initial_capital > 0
    /\ strategy = [short_window |-> args.short_window, long_window |-> args.long_window]
    /\ backtester = [initial_capital |-> args.initial_capital, results |-> None]
    /\ pc = "run"
    /\ signals = None
    /\ portfolio = None
    /\ i = 0
    /\ position = 0
    /\ raised = None
    /\ returned = <<>>
    /\ other \in {Other("run", c) : c \in {d \in Capitals : d >= args.initial_capital}}
    /\ NoRealtime

NextConc ==
    \/ GenerateSignals
    \/ InitializePortfolio
    \/ SimulateRow
    \/ SimulateEnd
    \/ CalculateMetrics
    \/ OtherGenerateSignals
    \/ OtherInitializePortfolio
    \/ OtherSimulateRow
    \/ OtherSimulateEnd
    \/ OtherCalculateMetrics

SpecConc == InitConc /\ [][NextConc]_vars

\* What run() returns when nothing else runs: the composition of its stages.
RunAlone(df, short_window, long_window, initial_capital) ==
    LET sig == generate_signals(df, short_window, long_window)
        pf0 == initialize_portfolio(sig, initial_capital)
    IN  IF FrameLen(pf0) > 0 /\ "close" \notin pf0.columns
        THEN Outcome("KeyError", <<>>)
        ELSE IF FrameLen(pf0) = 0
        THEN Outcome("IndexError", <<>>)
        ELSE LET pf == simulate_trades(pf0, initial_capital)
             IN  Outcome(None, <<[portfolio |-> pf,
                                  metrics |-> calculate_metrics(pf, initial_capital)]>>)

\* ---- the caller of MovingAverageCrossoverStrategy.backtest

\* The caller calls strategy.backtest(data, initial_capital);
\* portfolio['position'] raises KeyError when generate_signals returned the
\* frame as it was, for want of a close.
StrategyBacktest ==
    /\ UNCHANGED realtime
    /\ pc = "strategy"
    /\ signals' = generate_signals(data, strategy.short_window, strategy.long_window)
    /\ data' = AfterCopy(data, signals')
    /\ IF FrameLen(signals') > 0 /\ "position" \notin signals'.columns
       THEN /\ raised' = "KeyError"
            /\ pc' = "raised"
            /\ portfolio' = initialize_portfolio(signals', args.initial_capital)
            /\ returned' = Append(returned, Outcome("KeyError", <<>>))
       ELSE /\ portfolio' = IF "close" \in signals'.columns
                            THEN backtest(data, strategy.short_window,
                                          strategy.long_window, args.initial_capital)
                            ELSE CumulativeReturns(
                                     initialize_portfolio(signals', args.initial_capital))
            /\ pc' = "backtested"
            /\ returned' = Append(returned, Outcome(None, <<[portfolio |-> portfolio']>>))
            /\ UNCHANGED raised
    /\ UNCHANGED <<args, strategy, backtester, i, position, other>>

NextBacktest == StrategyInit \/ StrategyBacktest

SpecBacktest == Init /\ [][NextBacktest]_vars

\* ------------------------------------------------ realtime/price_monitor.py
\* Python values as they reach process_price_update, with their type
Str(v) == [type |-> "str", str |-> v]

Number(v) == [type |-> "int", int |-> v]

NoneValue == [type |-> "NoneType"]

TickerNames == {"AAPL", "MSFT"}

\* the tickers of the feed: two symbols, a missing one, one that is no string
UpdateTickers == {Str(t) : t \in TickerNames} \cup {NoneValue, Number(7)}

\* prices a 2% fall apart, and the values the validation turns away
GoodPrices == {98, 100}

UpdatePrices ==
    {Number(p) : p \in GoodPrices} \cup {Number(0), Number(-1), NoneValue, Str("100")}

\* timestamps in seconds; updates may arrive in any order
Timestamps == {0, 1, 3}

\* threshold_percent and window_seconds the monitor is constructed with
Thresholds == {2, 3}

WindowSeconds == {1}

\* the number of updates the feed delivers
MaxUpdates == 3

\* x >= y on floats
RatGreaterEq(x, y) == RatGreater(x, y) \/ (x # NaN /\ x = y)

RatAbs(x) == IF x[1] < 0 THEN <<-x[1], x[2]>> ELSE x

\* [(t, p) for t, p in history if t >= cutoff_time]; an entry is <<t, p>>
Since(history, cutoff_time) ==
    LET Recent(e) == e[1] >= cutoff_time IN SelectSeq(history, Recent)

\* faulty variant: the first recorded entry, whatever its timestamp
Earliest_FirstRecorded(window_prices, k) == window_prices[1]

\* min(window_prices, key=lambda x: x[0]) over the first k entries: the first
\* of the entries with the least timestamp
RECURSIVE Earliest(_, _)
Earliest(window_prices, k) ==
    IF k = 1 THEN window_prices[1]
    ELSE LET m == Earliest(window_prices, k - 1)
         IN  IF window_prices[k][1] < m[1] THEN window_prices[k] ELSE m

\* (current_price - earliest_price) / earliest_price * 100
PriceChangePercent(current_price, earliest_price) ==
    RatMul(Rat(current_price - earliest_price, earliest_price), Rat(100, 1))

\* PriceMonitor._check_price_change: the alert it triggers, if any.
\* `stored`: whether the alert trade was committed to the database.
check_price_change(m, ticker, current_price, current_time, stored) ==
    LET cutoff_time == current_time - m.window_seconds
        window_prices == Since(m.price_history[ticker], cutoff_time)
    IN  IF Len(window_prices) < 2 THEN <<>>
        ELSE LET earliest == Earliest(window_prices, Len(window_prices))
                 price_change_percent == PriceChangePercent(current_price, earliest[2])
             IN  IF RatGreaterEq(RatAbs(price_change_percent),
                                 Rat(m.threshold_percent, 1))
                 THEN <<[ticker |-> ticker, start_price |-> earliest[2],
                         current_price |-> current_price, start_time |-> earliest[1],
                         current_time |-> current_time,
                         change_percent |-> price_change_percent,
                         stored |-> stored]>>
                 ELSE <<>>

\* faulty variant: entries are kept for three windows
CleanCutoff_ThreeWindows(m, current_time) == current_time - m.window_seconds * 3

\* cutoff_time = current_time - timedelta(seconds=self.window_seconds * 2)
CleanCutoff(m, current_time) == current_time - m.window_seconds * 2

\* PriceMonitor._clean_price_history
clean_price_history(m, ticker, current_time) ==
    [m EXCEPT !.price_history[ticker] = Since(@, CleanCutoff(m, current_time))]

\* the arguments of a call of process_price_update
Update(ticker, price, timestamp) ==
    [ticker |-> ticker, price |-> price, timestamp |-> timestamp]

\* the validation at the head of process_price_update
ValidUpdate(ticker, price) ==
    /\ ticker.type = "str"
    /\ price.type = "int"
    /\ price.int > 0

\* PriceMonitor.process_price_update(ticker, price, timestamp); the commit of
\* the alert trade may succeed or fail.
MonitorUpdate(ticker, price, timestamp, stored) ==
    /\ updates.count < MaxUpdates
    /\ IF ValidUpdate(ticker, price)
       THEN LET recorded == [monitor EXCEPT !.price_history[ticker.str] =
                                                Append(@, <<timestamp, price.int>>)]
                raisedAlert == check_price_change(recorded, ticker.str, price.int,
                                                  timestamp, stored)
            IN  /\ monitor' = clean_price_history(recorded, ticker.str, timestamp)
                /\ updates' = [count |-> updates.count + 1,
                               received |-> [updates.received EXCEPT ![ticker.str] = @ + 1],
                               last |-> <<Update(ticker, price, timestamp)>>,
                               alert |-> raisedAlert]
       ELSE /\ monitor' = monitor
            /\ updates' = [updates EXCEPT !.count = @ + 1,
                                          !.last = <<Update(ticker, price, timestamp)>>,
                                          !.alert = <<>>]
    /\ UNCHANGED <<processor, trading>>

\* no backtest runs beside the price feed
NoTrading ==
    /\ data = EmptyFrame
    /\ args = [short_window |-> 0, long_window |-> 0, initial_capital |-> 0]
    /\ strategy = None
    /\ backtester = None
    /\ pc = "feed"
    /\ signals = None
    /\ portfolio = None
    /\ i = 0
    /\ position = 0
    /\ raised = None
    /\ returned = <<>>
    /\ other = Other("none", 0)

\* PriceMonitor.__init__
InitMonitor ==
    /\ NoTrading
    /\ monitor \in [threshold_percent : Thresholds, window_seconds : WindowSeconds,
                    price_history : {[t \in TickerNames |-> <<>>]}]
    /\ processor = [interval_minutes |-> 0, price_buffer |-> <<>>,
                    last_processed |-> <<>>, committed |-> <<>>]
    /\ updates = [count |-> 0, received |-> [t \in TickerNames |-> 0],
                  last |-> <<>>, alert |-> <<>>]

NextMonitor ==
    \E ticker \in UpdateTickers, price \in UpdatePrices, timestamp \in Timestamps,
       stored \in BOOLEAN :
        MonitorUpdate(ticker, price, timestamp, stored)

SpecMonitor == InitMonitor /\ [][NextMonitor]_vars

\* ----------------------------------------------- realtime/data_processor.py
\* the tickers process_price_update buffers: anything but None
BufferedTickers == UpdateTickers \ {NoneValue}

\* prices of the feed, a number and a string: the processor does not
\* validate them
ProcessorPrices == {Number(100), Str("100")}

\* interval_minutes; the timestamps of the processor's feed are in minutes
IntervalMinutes == {2}

\* sum(price_values) over the first k entries of the buffer
RECURSIVE SumPrices(_, _)
SumPrices(prices, k) == IF k = 0 THEN 0 ELSE SumPrices(prices, k - 1) + prices[k][2].int

\* min / max of the values of column c of the buffer entries
Least(values) == CHOOSE v \in values : \A w \in values : v <= w

Greatest(values) == CHOOSE v \in values : \A w \in values : v >= w

\* round(x, 2)
Round2(x) == Rat((x[1] * 200 + x[2]) \div (2 * x[2]), 100)

\* faulty variant: only the distinct entries of the buffer are counted
DataPoints_Distinct(prices) == Cardinality({prices[k] : k \in 1..Len(prices)})

\* data_points=len(prices)
DataPoints(prices) == Len(prices)

\* the StockPriceAverage row _store_average_price builds
AverageRecord(p, ticker, prices, timestamp) ==
    [ticker |-> ticker,
     interval_minutes |-> p.interval_minutes,
     start_time |-> Least({prices[k][1] : k \in 1..Len(prices)}),
     end_time |-> timestamp,
     average_price |-> Round2(Rat(SumPrices(prices, Len(prices)), Len(prices))),
     min_price |-> Least({prices[k][2].int : k \in 1..Len(prices)}),
     max_price |-> Greatest({prices[k][2].int : k \in 1..Len(prices)}),
     data_points |-> DataPoints(prices)]

\* sum(price_values) raises TypeError when a buffered price is no number
Summable(prices) == \A k \in 1..Len(prices) : prices[k][2].type = "int"

\* _calculate_averages_if_needed: last_time is None or
\* timestamp - last_time >= timedelta(minutes=self.interval_minutes)
IntervalPassed(p, ticker, timestamp) ==
    \/ p.last_processed[ticker] = <<>>
    \/ timestamp - p.last_processed[ticker][1] >= p.interval_minutes

\* DataProcessor._store_average_price on a non-empty buffer whose prices are
\* numbers: the commit succeeds, or raises and is rolled back.
store_average_price(p, ticker, timestamp, commit) ==
    IF commit
    THEN [p EXCEPT !.committed =
                       Append(@, AverageRecord(p, ticker, p.price_buffer[ticker], timestamp)),
                   !.last_processed[ticker] = <<timestamp>>,
                   !.price_buffer[ticker] = <<>>]
    ELSE p

\* DataProcessor.process_price_update(ticker, price, timestamp)
ProcessorUpdate(ticker, price, timestamp, commit) ==
    /\ updates.count < MaxUpdates
    /\ IF ticker.type = "NoneType"
       THEN /\ processor' = processor
            /\ updates' = [updates EXCEPT !.count = @ + 1,
                                          !.last = <<Update(ticker, price, timestamp)>>]
       ELSE LET buffered == [processor EXCEPT !.price_buffer[ticker] =
                                                  Append(@, <<timestamp, price>>)]
            IN  /\ processor' =
                      IF IntervalPassed(buffered, ticker, timestamp)
                         /\ Summable(buffered.price_buffer[ticker])
                      THEN store_average_price(buffered, ticker, timestamp, commit)
                      ELSE buffered
                /\ updates' = [updates EXCEPT !.count = @ + 1,
                                              !.received[ticker] = @ + 1,
                                              !.last = <<Update(ticker, price, timestamp)>>]
    /\ UNCHANGED <<monitor, trading>>

\* DataProcessor.__init__
InitProcessor ==
    /\ NoTrading
    /\ monitor = [threshold_percent |-> 0, window_seconds |-> 0, price_history |-> <<>>]
    /\ processor \in [interval_minutes : IntervalMinutes,
                      price_buffer : {[t \in BufferedTickers |-> <<>>]},
                      last_processed : {[t \in BufferedTickers |-> <<>>]},
                      committed : {<<>>}]
    /\ updates = [count |-> 0, received |-> [t \in BufferedTickers |-> 0],
                  last |-> <<>>, alert |-> <<>>]

NextProcessor ==
    \E ticker \in UpdateTickers, price \in ProcessorPrices, timestamp \in Timestamps,
       commit \in BOOLEAN :
        ProcessorUpdate(ticker, price, timestamp, commit)

SpecProcessor == InitProcessor /\ [][NextProcessor]_vars

\* ----------------------------------------------------------------- claims
ValidWindows(a) == 0 < a.short_window /\ a.short_window < a.long_window

ValidConfig(a) == ValidWindows(a) /\ a.initial_capital > 0

HasClose(f) == "close" \in f.columns \/ "price" \in f.columns

\* the closes of the caller's series, whichever column holds them
Closes(f) == IF "close" \in f.columns THEN Column(f, "close") ELSE Column(f, "price")

\* run has built its portfolio (it keeps it when it raises)
HavePortfolio == pc \in {"simulate", "metrics", "done", "raised"}

\* rows 1..i-1 have been through the loop of _simulate_trades
Simulated(k) == "close" \in portfolio.columns /\ k < i

Rows(f) == 1..FrameLen(f)

\* C1: in every row of the portfolio of a run, whatever buy, sell and hold
\* days came before, total equals holdings plus cash exactly.
C1_Conservation ==
    HavePortfolio =>
        \A k \in Rows(portfolio) :
            portfolio.rows[k]["total"] =
                portfolio.rows[k]["holdings"] + portfolio.rows[k]["cash"]

\* a finished run whose rows include an executed buy, an executed sell and a hold
C1_Witness ==
    /\ pc = "done"
    /\ \E b, h, e \in Rows(portfolio) :
        /\ b < h /\ h < e
        /\ portfolio.rows[b]["position"] = 1 /\ portfolio.rows[b]["holdings"] > 0
        /\ portfolio.rows[h]["position"] = 0 /\ portfolio.rows[h]["holdings"] > 0
        /\ portfolio.rows[e]["position"] = -1 /\ portfolio.rows[e]["holdings"] = 0
        /\ portfolio.rows[e]["cash"] > portfolio.rows[h]["cash"]

C3_NoShort ==
    (HavePortfolio /\ backtester.initial_capital > 0) => position \in Nat

\* the loop has passed a sell row and holds no shares, having held some before
C3_Witness ==
    /\ pc = "simulate"
    /\ backtester.initial_capital > 0
    /\ position = 0
    /\ \E b, e \in Rows(portfolio) :
        /\ b < e /\ e < i
        /\ portfolio.rows[b]["holdings"] > 0
        /\ portfolio.rows[e]["position"] = -1

Finished == pc \in {"done", "raised"}

\* C4: a run on a series with fewer entries than long_window raises nothing
\* and returns zero trades and final_value = initial_capital.
C4_ShortSeriesNoTrades ==
    (Finished /\ HasClose(data) /\ ValidConfig(args)
        /\ 0 < FrameLen(data) /\ FrameLen(data) < strategy.long_window) =>
        /\ raised = None
        /\ backtester.results.metrics.num_trades = 0
        /\ backtester.results.metrics.final_value = backtester.initial_capital

\* C5: with short_window >= long_window, a window <= 0 or initial_capital
\* <= 0, construction is rejected: the strategy (for the windows) or the
\* backtester (for the capital) is never constructed, so no later step runs.
C5_InvalidConfigRejected ==
    /\ ~ValidWindows(args) => pc = "start"
    /\ args.initial_capital <= 0 => pc \in {"start", "strategy"}

\* generate_signals has returned
HaveSignals == pc \in {"signals", "simulate", "metrics", "done", "raised"}

\* C6: the first row of the series generate_signals returns has position 0.
C6_FirstRowPositionZero ==
    (HaveSignals /\ HasClose(data) /\ ValidConfig(args) /\ FrameLen(signals) > 0) =>
        signals.rows[1]["position"] = 0

\* C7: with 0 < short_window < long_window, generate_signals drops exactly
\* the first long_window - 1 dates: n - long_window + 1 rows, those of the
\* last dates of the input in order, when n >= long_window, and no row
\* when n < long_window.
C7_DropsFirstRows ==
    (HaveSignals /\ HasClose(data) /\ ValidWindows(strategy)) =>
        LET n == FrameLen(data)
            L == strategy.long_window
        IN  IF n >= L
            THEN /\ FrameLen(signals) = n - L + 1
                 /\ \A j \in Rows(signals) :
                       /\ signals.index[j] = data.index[L - 1 + j]
                       /\ signals.rows[j]["close"] = Closes(data)[L - 1 + j]
            ELSE FrameLen(signals) = 0 /\ signals.rows = <<>>

\* rows are dropped and rows are kept
C7_Witness ==
    /\ pc = "signals"
    /\ ValidWindows(strategy)
    /\ HasClose(data)
    /\ FrameLen(signals) = 2
    /\ FrameLen(data) = 4

\* C8: at every retained row, signal = 1 iff the mean of the short_window
\* most recent closes ending at that date is strictly greater than the mean
\* of the long_window most recent closes ending there; equal means give 0.
C8_StrictComparison ==
    (HaveSignals /\ HasClose(data)) =>
        \A j \in Rows(signals) :
            LET d == signals.index[j]
                s == strategy.short_window
                l == strategy.long_window
                short_sum == SumRange(Closes(data), d - s + 1, d)
                long_sum  == SumRange(Closes(data), d - l + 1, d)
            IN  /\ signals.rows[j]["signal"] \in {0, 1}
                /\ signals.rows[j]["signal"] = 1 <=> short_sum * l > long_sum * s

\* a row where the two means are equal and a row where the short one is greater
C8_Witness ==
    /\ pc = "signals"
    /\ ValidWindows(strategy)
    /\ HasClose(data)
    /\ \E j, k \in Rows(signals) :
        /\ signals.rows[j][MAName(strategy.short_window)]
              = signals.rows[j][MAName(strategy.long_window)]
        /\ signals.rows[j]["signal"] = 0
        /\ signals.rows[k]["signal"] = 1

\* the first k rows of a frame
Prefix(f, k) == Frame(SubSeq(f.index, 1, k), f.columns, SubSeq(f.rows, 1, k))

\* the rows of a frame dated d or earlier
RowsUpTo(f, d) == Prefix(f, Cardinality({j \in Rows(f) : f.index[j] <= d}))

\* C9: no look-ahead.  The signal rows and the portfolio rows of every date
\* up to d are those computed from the series cut after d: two series that
\* agree up to d get identical rows up to d.
C9_NoLookAhead ==
    /\ (pc = "signals" /\ HasClose(data)) =>
          \A d \in 0..FrameLen(data) :
              generate_signals(Prefix(data, d), strategy.short_window,
                               strategy.long_window)
                  = RowsUpTo(signals, d)
    /\ (pc = "metrics" /\ HasClose(data)) =>
          \A d \in 0..FrameLen(data) :
              simulate_trades(
                  initialize_portfolio(
                      generate_signals(Prefix(data, d), strategy.short_window,
                                       strategy.long_window),
                      backtester.initial_capital),
                  backtester.initial_capital)
                  = RowsUpTo(portfolio, d)

\* a simulated series with a buy on an early date and different closes later
C9_Witness ==
    /\ pc = "metrics"
    /\ ValidConfig(args)
    /\ FrameLen(portfolio) >= 3
    /\ portfolio.rows[1]["holdings"] > 0
    /\ portfolio.rows[3]["close"] # portfolio.rows[2]["close"]
    /\ portfolio.rows[3]["total"] # portfolio.rows[2]["total"]

\* C10: when the input has neither a 'close' nor a 'price' column,
\* generate_signals does not return a series normally.
C10_MissingColumnRaises ==
    (~HasClose(data) /\ ValidConfig(args) /\ FrameLen(data) > 0) => pc \notin {"signals", "simulate", "metrics", "done"}

\* the metrics record of a finished run
Metrics == backtester.results.metrics

\* C11: buy_signals and sell_signals are the numbers of portfolio rows with
\* position +1 and -1, whether or not shares moved on those rows, and
\* num_trades is their sum.
C11_SignalCounts ==
    pc = "done" =>
        /\ Metrics.buy_signals =
              Cardinality({k \in Rows(portfolio) : portfolio.rows[k]["position"] = 1})
        /\ Metrics.sell_signals =
              Cardinality({k \in Rows(portfolio) : portfolio.rows[k]["position"] = -1})
        /\ Metrics.num_trades = Metrics.buy_signals + Metrics.sell_signals

\* a buy row on which no share was affordable and a sell row with no
\* shares held, both counted
C11_Witness ==
    /\ pc = "done"
    /\ backtester.initial_capital > 0
    /\ \E b, e \in Rows(portfolio) :
        /\ b < e
        /\ portfolio.rows[b]["position"] = 1
        /\ portfolio.rows[b]["holdings"] = 0
        /\ portfolio.rows[e]["position"] = -1
        /\ portfolio.rows[e]["cash"] = portfolio.rows[b]["cash"]
    /\ Metrics.buy_signals = 1
    /\ Metrics.sell_signals = 1
    /\ Metrics.num_trades = 2

\* C12: in the metrics of every finished run, sharpe_ratio is 0 whenever
\* volatility is 0, and otherwise it is annual_return / volatility.
C12_SharpeGuard ==
    pc = "done" =>
        IF Metrics.volatility.squared = Rat(0, 1)
        THEN Metrics.sharpe_ratio = Zero
        ELSE Metrics.sharpe_ratio = Quotient(Metrics.annual_return, Metrics.volatility)

\* a run with no trade over two rows or more: volatility 0, sharpe_ratio 0
C12_Witness ==
    /\ pc = "done"
    /\ ValidConfig(args)
    /\ FrameLen(portfolio) >= 2
    /\ Metrics.volatility = Root(Rat(0, 1))
    /\ Metrics.sharpe_ratio = Zero

\* C13: with fewer than 2 return observations (a portfolio of one row)
\* volatility is 0 and sharpe_ratio is 0, neither is NaN.
C13_SingleRowVolatilityZero ==
    (pc = "done" /\ ValidConfig(args) /\ FrameLen(portfolio) < 2) =>
        /\ Metrics.volatility = Root(Rat(0, 1))
        /\ Metrics.sharpe_ratio = Zero

\* the equity index of row k: total[k] / total[1]
EquityIndex(k) == Rat(portfolio.rows[k]["total"], portfolio.rows[1]["total"])

\* the largest equity index of rows 1..k
RunningMax(k) ==
    CHOOSE v \in {EquityIndex(j) : j \in 1..k} :
        \A j \in 1..k : ~RatGreater(EquityIndex(j), v)

\* C14: max_drawdown is the minimum over the rows of (equity index /
\* running maximum of the equity index) - 1; it is <= 0 for every
\* non-empty portfolio and 0 when total equity rises from row to row.
C14_MaxDrawdown ==
    pc = "done" =>
        /\ ~RatGreater(Metrics.max_drawdown, Rat(0, 1))
        /\ Metrics.max_drawdown # NaN
        /\ backtester.initial_capital > 0 =>
              /\ \A k \in Rows(portfolio) :
                    ~RatGreater(Metrics.max_drawdown,
                                RatAdd(RatDiv(EquityIndex(k), RunningMax(k)), Rat(-1, 1)))
              /\ \E k \in Rows(portfolio) :
                    Metrics.max_drawdown =
                        RatAdd(RatDiv(EquityIndex(k), RunningMax(k)), Rat(-1, 1))
              /\ (\A k \in 2..FrameLen(portfolio) :
                     portfolio.rows[k]["total"] > portfolio.rows[k - 1]["total"])
                    => Metrics.max_drawdown = Rat(0, 1)

\* a run whose equity rises and then falls below its peak: a drawdown < 0
C14_Witness ==
    /\ pc = "done"
    /\ ValidConfig(args)
    /\ \E k \in 2..FrameLen(portfolio) - 1 :
        /\ portfolio.rows[k]["total"] > portfolio.rows[k - 1]["total"]
        /\ portfolio.rows[k + 1]["total"] < portfolio.rows[k]["total"]
    /\ RatGreater(Rat(0, 1), Metrics.max_drawdown)

\* a run whose equity rises on every row: max_drawdown 0
C14_WitnessRising ==
    /\ pc = "done"
    /\ FrameLen(portfolio) >= 2
    /\ \A k \in 2..FrameLen(portfolio) :
          portfolio.rows[k]["total"] > portfolio.rows[k - 1]["total"]

Flat(f) == \A j, k \in Rows(f) : Closes(f)[j] = Closes(f)[k]

\* C15: for a flat price series (here one at least long_window long), the
\* run returns num_trades 0, total_return 0 and sharpe_ratio 0.
C15_FlatSeries ==
    (Finished /\ ValidConfig(args) /\ HasClose(data) /\ Flat(data)
        /\ FrameLen(data) >= strategy.long_window) =>
        /\ raised = None
        /\ Metrics.num_trades = 0
        /\ Metrics.total_return = Rat(0, 1)
        /\ Metrics.sharpe_ratio = Zero

\* C17: generate_signals and Backtester.run leave the caller's price series
\* as it was, also when 'price' is aliased to 'close'; the simulation leaves
\* the signal frame as generate_signals returned it: every stage writes to
\* its own copy.
C17_CallerSeriesUnchanged ==
    [][/\ data' = data
       /\ (pc \in {"signals", "simulate", "metrics"} => signals' = signals)]_vars

\* a finished run on a series that has 'price' and no 'close': the columns
\* the stages added are in their frames and not in the caller's
C17_Witness ==
    /\ pc = "done"
    /\ "price" \in data.columns
    /\ "close" \notin data.columns
    /\ {"close", "signal", "position"} \subseteq signals.columns
    /\ "cash" \notin signals.columns
    /\ {"cash", "total", "cumulative_returns"} \subseteq portfolio.columns
    /\ FrameLen(data) > FrameLen(portfolio)

\* C16: two runs with identical inputs (same series, same windows, same
\* initial capital) return identical rows and identical metrics, or end with
\* the same exception: nothing is carried over from one run to the next.
C16_Deterministic == Len(returned) = 2 => returned[1] = returned[2]

\* a second run has returned, after a first one that traded and ended
\* holding shares
C16_Witness ==
    /\ Len(returned) = 2
    /\ pc = "done"
    /\ returned[1].raised = None
    /\ returned[1].results[1].metrics.num_trades > 0
    /\ position > 0

\* C18: two Backtester runs on the same strategy object and the same input
\* series, interleaved step by step in any order, each return exactly what
\* they return when run alone.
C18_InterleavedRunsIndependent ==
    /\ Len(returned) = 1 =>
          returned[1] = RunAlone(data, strategy.short_window, strategy.long_window,
                                 backtester.initial_capital)
    /\ other.pc \in {"done", "raised"} =>
          Outcome(other.raised, other.results) =
              RunAlone(data, strategy.short_window, strategy.long_window,
                       other.initial_capital)

\* both runs have returned, the second took steps while the first was under
\* way, both traded, and their capitals (hence their rows) differ
C18_Witness ==
    /\ Len(returned) = 1
    /\ other.pc = "done"
    /\ other.overlap
    /\ pc = "done"
    /\ returned[1].results[1].metrics.num_trades > 0
    /\ other.results[1].metrics.num_trades > 0
    /\ other.position > 0
    /\ other.initial_capital # backtester.initial_capital

\* the simulator is about to process row i of a frame with closes
AtRow == pc = "simulate" /\ i <= FrameLen(portfolio) /\ "close" \in portfolio.columns

\* C19: on every row with position == 1 the simulator buys floor(c / close)
\* shares, c being the cash of the previous row as it stands in the portfolio
\* (initial_capital on the first row); cash becomes c - shares * close and the
\* shares held grow by that number.  (Configuration within the contract.)
C19_Buy ==
    [][(AtRow /\ ValidConfig(args) /\ portfolio.rows[i]["position"] = 1) =>
          LET c == IF i = 1 THEN backtester.initial_capital
                            ELSE portfolio.rows[i - 1]["cash"]
              close == portfolio.rows[i]["close"]
              shares_to_buy == c \div close
          IN  /\ position' = position + shares_to_buy
              /\ portfolio'.rows[i]["cash"] = c - shares_to_buy * close
              /\ portfolio'.rows[i]["holdings"] = position' * close]_vars

\* a buy on a later row, made with cash that is no longer the initial capital
C19_Witness ==
    /\ pc = "simulate"
    /\ ValidConfig(args)
    /\ \E k \in 2..FrameLen(portfolio) :
        /\ Simulated(k)
        /\ portfolio.rows[k]["position"] = 1
        /\ portfolio.rows[k - 1]["cash"] # backtester.initial_capital
        /\ portfolio.rows[k]["cash"] < portfolio.rows[k - 1]["cash"]

\* C20: on every row with position == -1 while shares are held the simulator
\* sells them all at the row's close: shares held 0, holdings 0, cash the
\* previous row's cash plus shares * close.
C20_Sell ==
    [][(AtRow /\ portfolio.rows[i]["position"] = -1 /\ position > 0) =>
          /\ position' = 0
          /\ portfolio'.rows[i]["holdings"] = 0
          /\ i > 1
          /\ portfolio'.rows[i]["cash"] =
                portfolio.rows[i - 1]["cash"] + position * portfolio.rows[i]["close"]]_vars

\* a sell of more than one share has been processed
C20_Witness ==
    /\ pc = "simulate"
    /\ position = 0
    /\ \E k \in 2..FrameLen(portfolio) :
        /\ k = i - 1
        /\ portfolio.rows[k]["position"] = -1
        /\ portfolio.rows[k - 1]["holdings"] >= 2 * portfolio.rows[k - 1]["close"]
        /\ portfolio.rows[k]["holdings"] = 0
        /\ portfolio.rows[k]["cash"] > portfolio.rows[k - 1]["cash"]

\* C21: on every row with position == 0, and on every row with position == -1
\* while no shares are held, cash equals the previous row's cash
\* (initial_capital on the first row) and the shares held are unchanged; only
\* holdings is revalued, at the row's close.
C21_Hold ==
    [][(AtRow /\ (portfolio.rows[i]["position"] = 0
                  \/ (portfolio.rows[i]["position"] = -1 /\ position = 0))) =>
          /\ position' = position
          /\ portfolio'.rows[i]["cash"] =
                (IF i = 1 THEN backtester.initial_capital
                          ELSE portfolio.rows[i - 1]["cash"])
          /\ portfolio'.rows[i]["holdings"] = position * portfolio.rows[i]["close"]]_vars

\* a hold row has been processed while shares were held and the close moved
C21_Witness ==
    /\ pc = "simulate"
    /\ position > 1
    /\ \E k \in 2..FrameLen(portfolio) :
        /\ k = i - 1
        /\ portfolio.rows[k]["position"] = 0
        /\ portfolio.rows[k]["close"] # portfolio.rows[k - 1]["close"]
        /\ portfolio.rows[k]["holdings"] # portfolio.rows[k - 1]["holdings"]
        /\ portfolio.rows[k]["cash"] = portfolio.rows[k - 1]["cash"]

\* a sell signal has been processed while no shares were held
C21_WitnessEmptySell ==
    /\ pc = "simulate"
    /\ position = 0
    /\ \E k \in 1..FrameLen(portfolio) :
        /\ k = i - 1
        /\ "close" \in portfolio.columns
        /\ portfolio.rows[k]["position"] = -1
        /\ (k > 1 => portfolio.rows[k - 1]["holdings"] = 0)

\* the product of (1 + return) over the first k rows of the portfolio
RECURSIVE GrowthProduct(_)
GrowthProduct(k) ==
    IF k = 0 THEN Rat(1, 1)
    ELSE RatMul(GrowthProduct(k - 1), RatAdd(Rat(1, 1), portfolio.rows[k]["returns"]))

\* C22: the first portfolio row has daily return 0; every later row i has
\* return total[i] / total[i-1] - 1; cumulative_returns at row i is the
\* product of (1 + return) over the rows up to i, minus 1; total_return is
\* the cumulative return of the last row.
C22_Returns ==
    pc = "done" =>
        /\ portfolio.rows[1]["returns"] = Rat(0, 1)
        /\ \A k \in 2..FrameLen(portfolio) :
              portfolio.rows[k]["returns"] =
                  Rat(portfolio.rows[k]["total"] - portfolio.rows[k - 1]["total"],
                      portfolio.rows[k - 1]["total"])
        /\ \A k \in Rows(portfolio) :
              portfolio.rows[k]["cumulative_returns"] =
                  RatAdd(GrowthProduct(k), Rat(-1, 1))
        /\ Metrics.total_return =
              portfolio.rows[FrameLen(portfolio)]["cumulative_returns"]

\* a run whose equity moved on two rows, up and then down
C22_Witness ==
    /\ pc = "done"
    /\ FrameLen(portfolio) >= 3
    /\ \E k \in 2..FrameLen(portfolio) - 1 :
        /\ RatGreater(portfolio.rows[k]["returns"], Rat(0, 1))
        /\ RatGreater(Rat(0, 1), portfolio.rows[k + 1]["returns"])
    /\ Metrics.total_return # Rat(0, 1)

\* the daily returns of rows 2..n of the portfolio
LaterReturns == [k \in 1..FrameLen(portfolio) - 1 |-> portfolio.rows[k + 1]["returns"]]

\* C23: volatility is computed from the daily returns of rows 2..n only; the
\* first row's placeholder return of 0 is not among the observations.
\* (Stated for portfolios of three rows or more, where either set of
\* observations has a standard deviation.)
C23_VolatilityExcludesFirstRow ==
    (pc = "done" /\ ValidConfig(args) /\ FrameLen(portfolio) >= 3) =>
        Metrics.volatility = Volatility(LaterReturns)

\* C24: at every retained row after the first, position is
\* signal[i] - signal[i-1] and lies in {-1, 0, 1}: 1 exactly where the signal
\* rises from 0 to 1, -1 exactly where it falls from 1 to 0, 0 elsewhere.
C24_PositionIsSignalChange ==
    (HaveSignals /\ HasClose(data)) =>
        \A k \in 2..FrameLen(signals) :
            LET now  == signals.rows[k]["signal"]
                before == signals.rows[k - 1]["signal"]
                p == signals.rows[k]["position"]
            IN  /\ p = now - before
                /\ p \in {-1, 0, 1}
                /\ (p = 1 <=> (before = 0 /\ now = 1))
                /\ (p = -1 <=> (before = 1 /\ now = 0))

\* a series with a single upward crossover, after the first retained row:
\* position is 1 on that row and 0 on every other retained row
C24_Witness ==
    /\ pc = "signals"
    /\ ValidConfig(args)
    /\ HasClose(data)
    /\ FrameLen(signals) >= 3
    /\ \E k \in 2..FrameLen(signals) :
        /\ signals.rows[k]["position"] = 1
        /\ \A j \in Rows(signals) : j < k => signals.rows[j]["signal"] = 0
        /\ \A j \in Rows(signals) : j >= k => signals.rows[j]["signal"] = 1
        /\ \A j \in Rows(signals) \ {k} : signals.rows[j]["position"] = 0

\* the entries of the ticker's history that lie in the window of an update
\* at `timestamp`
InWindow(ticker, timestamp) ==
    LET h == monitor.price_history[ticker]
    IN  {k \in 1..Len(h) : h[k][1] >= timestamp - monitor.window_seconds}

\* those of them with the earliest timestamp
EarliestInWindow(ticker, timestamp) ==
    LET h == monitor.price_history[ticker]
        w == InWindow(ticker, timestamp)
    IN  {k \in w : \A j \in w : h[j][1] >= h[k][1]}

\* the absolute percentage change from entry k to `price` is at least the threshold
ChangeReachesThreshold(ticker, k, price) ==
    LET from == monitor.price_history[ticker][k][2]
    IN  Abs(price - from) * 100 >= monitor.threshold_percent * from

\* the update the feed delivered last, and whether the monitor accepted it
Last == updates.last[1]

Accepted(u) == u.ticker.type = "str" /\ u.price.type = "int" /\ u.price.int > 0

\* C25: process_price_update raises a price alert for a ticker exactly when,
\* after recording the update, at least two of the ticker's recorded prices
\* lie in the window [timestamp - window_seconds, ...) and the absolute
\* percentage change from the earliest-timestamped of them to the updated
\* price is at least threshold_percent; a single price in the window never
\* alerts, and a rejected update never does.
C25_AlertExactly ==
    (pc = "feed" /\ updates.count > 0) =>
        IF Accepted(Last)
        THEN LET ticker == Last.ticker.str
                 price == Last.price.int
                 w == InWindow(ticker, Last.timestamp)
                 e == EarliestInWindow(ticker, Last.timestamp)
             IN  /\ Len(updates.alert) = 1 =>
                       /\ updates.alert[1].ticker = ticker
                       /\ Cardinality(w) >= 2
                       /\ \E k \in e : ChangeReachesThreshold(ticker, k, price)
                 /\ (/\ Cardinality(w) >= 2
                     /\ \A k \in e : ChangeReachesThreshold(ticker, k, price)) =>
                       Len(updates.alert) = 1
        ELSE Len(updates.alert) = 0

\* an alert for a fall in price, measured from an entry that is the earliest
\* in the window without being the first recorded
C25_Witness ==
    /\ pc = "feed"
    /\ Len(updates.alert) = 1
    /\ updates.alert[1].current_price < updates.alert[1].start_price
    /\ LET h == monitor.price_history[updates.alert[1].ticker]
       IN  /\ Len(h) = 3
           /\ h[1][1] > updates.alert[1].start_time

\* an update whose price moved by more than the threshold raised no alert,
\* being alone in its window
C25_WitnessSingle ==
    /\ pc = "feed"
    /\ Len(updates.alert) = 0
    /\ \E t \in TickerNames :
        LET h == monitor.price_history[t]
        IN  /\ Len(h) = 2
            /\ h[2][1] - h[1][1] > monitor.window_seconds
            /\ Abs(h[2][2] - h[1][2]) * 100 >= monitor.threshold_percent * h[1][2]

\* the entries of a history, as a set
Entries(history) == {history[k] : k \in 1..Len(history)}

\* C26: a call of process_price_update with a string ticker and a price > 0
\* leaves (timestamp, price) recorded in that ticker's history, every entry
\* kept for the ticker has timestamp >= timestamp - 2 * window_seconds, and
\* the histories of the other tickers are unchanged; a call with a non-string
\* ticker or a missing, non-numeric or non-positive price changes no history.
C26_HistoryAfterUpdate ==
    [][LET u == updates'.last[1]
       IN  IF Accepted(u)
           THEN LET kept == Entries(monitor'.price_history[u.ticker.str])
                IN  /\ <<u.timestamp, u.price.int>> \in kept
                    /\ \A e \in kept : e[1] >= u.timestamp - 2 * monitor.window_seconds
                    /\ \A t \in TickerNames \ {u.ticker.str} :
                          monitor'.price_history[t] = monitor.price_history[t]
           ELSE monitor'.price_history = monitor.price_history]_vars

\* an accepted update has dropped the ticker's older entry while the other
\* ticker keeps an entry just as old
C26_Witness ==
    /\ pc = "feed"
    /\ updates.count = 3
    /\ Accepted(Last)
    /\ updates.received[Last.ticker.str] = 2
    /\ Len(monitor.price_history[Last.ticker.str]) = 1
    /\ \E t \in TickerNames \ {Last.ticker.str} :
          \E e \in Entries(monitor.price_history[t]) :
              e[1] < Last.timestamp - 2 * monitor.window_seconds

\* a rejected update after two accepted ones: the histories are as they were
C26_WitnessRejected ==
    /\ pc = "feed"
    /\ updates.count = 3
    /\ ~Accepted(Last)
    /\ Last.ticker.type = "str"
    /\ Len(monitor.price_history[Last.ticker.str]) = 2

\* the rows of frame f before row k whose position is not 0
TriggersBefore(f, k) == {j \in 1..k - 1 : f.rows[j]["position"] # 0}

\* the last of them
LastTriggerBefore(f, k) ==
    CHOOSE j \in TriggersBefore(f, k) : \A h \in TriggersBefore(f, k) : h <= j

\* C27: in every series produced by generate_signals the nonzero position
\* values strictly alternate in sign and the first nonzero one is +1; hence
\* 0 <= buy_signals - sell_signals <= 1, the simulator holds zero shares
\* immediately before every buy row, and a sell row finds zero shares held
\* only if the preceding buy bought no share.  (The simulator with an
\* initial capital within the contract, > 0.)
C27_TriggersAlternate ==
    /\ (HaveSignals /\ HasClose(data)) =>
          \A k \in Rows(signals) :
              signals.rows[k]["position"] # 0 =>
                  IF TriggersBefore(signals, k) = {}
                  THEN signals.rows[k]["position"] = 1
                  ELSE signals.rows[k]["position"] =
                          -signals.rows[LastTriggerBefore(signals, k)]["position"]
    /\ pc = "done" =>
          Metrics.buy_signals - Metrics.sell_signals \in {0, 1}
    /\ (AtRow /\ backtester.initial_capital > 0) =>
          /\ portfolio.rows[i]["position"] = 1 => position = 0
          /\ (portfolio.rows[i]["position"] = -1 /\ position = 0) =>
                /\ TriggersBefore(portfolio, i) # {}
                /\ LET b == LastTriggerBefore(portfolio, i)
                   IN  /\ portfolio.rows[b]["position"] = 1
                       /\ portfolio.rows[b]["holdings"] = 0
                       /\ portfolio.rows[b]["cash"] < portfolio.rows[b]["close"]

\* the simulator stands before a second buy row, after a buy and a sell, and
\* holds no share
C27_Witness ==
    /\ AtRow
    /\ ValidConfig(args)
    /\ portfolio.rows[i]["position"] = 1
    /\ Cardinality(TriggersBefore(portfolio, i)) = 2
    /\ \E j \in TriggersBefore(portfolio, i) : portfolio.rows[j]["holdings"] > 0

\* the simulator stands before a sell row with no share held: the buy before
\* it could not afford one
C27_WitnessEmptySell ==
    /\ AtRow
    /\ ValidConfig(args)
    /\ portfolio.rows[i]["position"] = -1
    /\ position = 0

SimulatedColumns == {"holdings", "cash", "total", "returns", "cumulative_returns"}

\* C29: for every price series, window pair and initial capital (here: those
\* within the contract), MovingAverageCrossoverStrategy.backtest produces
\* row for row the same holdings, cash, total, returns and
\* cumulative_returns as Backtester._simulate_trades on the same signals.
C29_SimulatorsAgree ==
    (pc = "backtested" /\ ValidConfig(args) /\ HasClose(data)) =>
        LET reference == simulate_trades(
                             initialize_portfolio(signals, args.initial_capital),
                             args.initial_capital)
        IN  /\ FrameLen(portfolio) = FrameLen(reference)
            /\ \A k \in Rows(portfolio) : \A c \in SimulatedColumns :
                  portfolio.rows[k][c] = reference.rows[k][c]

\* the data_points of the first k committed average records of `ticker`
RECURSIVE CommittedPoints(_, _)
CommittedPoints(ticker, k) ==
    IF k = 0 THEN 0
    ELSE CommittedPoints(ticker, k - 1)
         + (IF processor.committed[k].ticker = ticker
            THEN processor.committed[k].data_points ELSE 0)

\* every update received for every ticker is in a committed record or in the
\* buffer, once
Accounted ==
    \A ticker \in BufferedTickers :
        CommittedPoints(ticker, Len(processor.committed))
            + Len(processor.price_buffer[ticker]) = updates.received[ticker]

\* C30: after any sequence of process_price_update calls with non-None
\* tickers, each commit succeeding or failing, for every ticker the
\* data_points of the committed average records plus the length of the
\* ticker's buffer equal the number of updates received for it; the buffer
\* is cleared and last_processed advanced only when the commit succeeds.
C30_EveryUpdateOnce ==
    [][/\ Accounted'
       /\ \A ticker \in BufferedTickers :
             IF updates'.received[ticker] = updates.received[ticker]
             THEN /\ processor'.price_buffer[ticker] = processor.price_buffer[ticker]
                  /\ processor'.last_processed[ticker] = processor.last_processed[ticker]
             ELSE LET u == updates'.last[1]
                      waiting == Append(processor.price_buffer[ticker],
                                        <<u.timestamp, u.price>>)
                  IN  IF Len(processor'.committed) = Len(processor.committed)
                      THEN /\ processor'.price_buffer[ticker] = waiting
                           /\ processor'.last_processed[ticker] =
                                 processor.last_processed[ticker]
                      ELSE /\ Len(processor'.committed) = Len(processor.committed) + 1
                           /\ processor'.committed[Len(processor'.committed)].ticker = ticker
                           /\ processor'.committed[Len(processor'.committed)].data_points =
                                 Len(waiting)
                           /\ processor'.price_buffer[ticker] = <<>>
                           /\ processor'.last_processed[ticker] = <<u.timestamp>>]_vars

\* a ticker whose three updates are in two committed records, of one point
\* and of two, with nothing left in the buffer
C30_Witness ==
    /\ pc = "feed"
    /\ Len(processor.committed) = 2
    /\ \E ticker \in BufferedTickers :
        /\ updates.received[ticker] = 3
        /\ Len(processor.price_buffer[ticker]) = 0
        /\ processor.committed[2].ticker = ticker
        /\ processor.committed[2].data_points = 2

====
